---- MODULE Spec2Model ----
(***************************************************************************)
(* Model of auto_gen_news.py: the startup configuration check, the three   *)
(* headline requests of fetch_top_headlines, and the bucket x article      *)
(* double loop of main with its four stages (rewrite_article,              *)
(* download_image, upload_local_image, create_wordpress_post).             *)
(*                                                                         *)
(* Python strings are sequences of one-character strings; the Python value *)
(* None is the one-element sequence None below, so that every string-typed *)
(* variable has a single TLA+ type.  The replies of the four collaborators *)
(* (news API, OpenAI, image host, WordPress) and the outcome of each file  *)
(* operation are inputs, drawn with \E when the code reads them.           *)
(***************************************************************************)
EXTENDS Integers, Sequences, FiniteSets, TLC

\* ------------------------------------------------------------------------
\* Bounds
\* ------------------------------------------------------------------------

\* Largest number of articles one headline response carries.
MaxArticles == 2

\* Largest number of file operations (open, write, remove) that fail in a run.
MaxDiskFaults == 1

\* Longest title the title-cleaning specification draws.
MaxTitleLen == 6

\* Largest 1-based index of an article within its bucket when the temporary
\* names are compared.
MaxIndex == 11

\* ------------------------------------------------------------------------
\* Python values
\* ------------------------------------------------------------------------

None == <<"None">>

\* Python truthiness of a str-or-None value.
Truthy(s) == s # None /\ s # <<>>

\* Python truthiness of an int-or-None media id (a record [isNone, n]).
NoId == [isNone |-> TRUE, n |-> 0]

IntId(k) == [isNone |-> FALSE, n |-> k]

TruthyId(a) == ~a.isNone /\ a.n # 0

\* ------------------------------------------------------------------------
\* Title cleaning: re.sub(r'\s[-–—]\s.*$', '', title)
\* ------------------------------------------------------------------------

Whitespace == {" ", "\n"}

Dashes == {"-", "endash", "emdash"}

\* '.*$' from position j: '.' does not match a newline and '$' matches at
\* the end of the string or just before a newline that ends the string.
TailMatches(t, j) == \A k \in j..Len(t) : t[k] = "\n" => k = Len(t)

MatchesAt(t, i) ==
    /\ i + 2 <= Len(t)
    /\ t[i] \in Whitespace
    /\ t[i + 1] \in Dashes
    /\ t[i + 2] \in Whitespace
    /\ TailMatches(t, i + 3)

\* Index of the last character the match starting at i consumes.
MatchEnd(t, i) ==
    IF i + 3 <= Len(t) /\ t[Len(t)] = "\n" THEN Len(t) - 1 ELSE Len(t)

CleanTitle(t) ==
    LET starts == {i \in 1..Len(t) : MatchesAt(t, i)}
    IN  IF starts = {} THEN t
        ELSE LET i == CHOOSE m \in starts : \A o \in starts : m <= o
             IN  SubSeq(t, 1, i - 1) \o SubSeq(t, MatchEnd(t, i) + 1, Len(t))

NoTitle == <<"N", "o", " ", "T", "i", "t", "l", "e">>

\* ------------------------------------------------------------------------
\* Extension of the image URL: os.path.splitext(image_url)[1]
\* ------------------------------------------------------------------------

LastIndexOf(p, c) ==
    LET hits == {i \in 1..Len(p) : p[i] = c}
    IN  IF hits = {} THEN 0 ELSE CHOOSE m \in hits : \A o \in hits : o <= m

SplitExt(p) ==
    LET sepIndex == LastIndexOf(p, "/")
        dotIndex == LastIndexOf(p, ".")
    IN  IF dotIndex > sepIndex
           /\ \E k \in (sepIndex + 1)..(dotIndex - 1) : p[k] # "."
        THEN SubSeq(p, dotIndex, Len(p))
        ELSE <<>>

MaxExtLen == 5

DefaultExt == <<".", "j", "p", "g">>

GuessExt(url) ==
    LET ext == SplitExt(url)
    IN  IF ext = <<>> \/ Len(ext) > MaxExtLen THEN DefaultExt ELSE ext

\* f"temp_image_{category}_{idx}{ext}"
TempName(category, i, ext) == [category |-> category, idx |-> i, ext |-> ext]

NoFile == TempName("", 0, <<>>)

DigitChar(d) == <<"0", "1", "2", "3", "4", "5", "6", "7", "8", "9">>[d + 1]

\* str(n) of a natural number.
RECURSIVE Digits(_)
Digits(n) ==
    IF n < 10 THEN <<DigitChar(n)>>
    ELSE Digits(n \div 10) \o <<DigitChar(n % 10)>>

CategoryText(category) ==
    CASE category = "finance" -> <<"f", "i", "n", "a", "n", "c", "e">>
      [] category = "business" -> <<"b", "u", "s", "i", "n", "e", "s", "s">>
      [] category = "tech" -> <<"t", "e", "c", "h">>
      [] OTHER -> <<>>

NamePrefix == <<"t", "e", "m", "p", "_", "i", "m", "a", "g", "e", "_">>

\* A name without the article's index.
FileNameTextNoIndex(name) ==
    NamePrefix \o CategoryText(name.category) \o <<"_">> \o name.ext

\* The characters of the name f"temp_image_{category}_{idx}{ext}".
FileNameText(name) ==
    NamePrefix \o CategoryText(name.category) \o <<"_">>
        \o Digits(name.idx) \o name.ext

\* ------------------------------------------------------------------------
\* Inputs
\* ------------------------------------------------------------------------

Key == <<"k">>

SecretInputs == {None, <<>>, Key}

PlainTitle == <<"P">>

SourcedTitle == <<"F", " ", "-", " ", "R">>

PngUrl == <<"h", "/", "a", ".", "p", "n", "g">>

QueryUrl == <<"h", "/", "a", ".", "j", "p", "g", "?", "w", "=", "1">>

DigitUrl == <<"h", "/", "a", ".", "1">>

BareUrl == <<"h", "/", "a">>

\* The article records a headline response can carry ("title" and
\* "urlToImage" may be null; "description" and "content" are only handed to
\* the rewrite call).
ArticleInputs ==
    { [title |-> PlainTitle, urlToImage |-> None],
      [title |-> SourcedTitle, urlToImage |-> <<>>],
      [title |-> SourcedTitle, urlToImage |-> PngUrl],
      [title |-> None, urlToImage |-> QueryUrl] }

NoArticle == [title |-> None, urlToImage |-> None]

Order == <<"finance", "business", "tech">>

Buckets == {"finance", "business", "tech"}

FailureSentinel == [kind |-> "sentinel", of |-> 0]

NoText == [kind |-> "unset", of |-> 0]

Contains(seq, x) == \E k \in 1..Len(seq) : seq[k] = x

Count(seq, x) == Cardinality({k \in 1..Len(seq) : seq[k] = x})

\* Position of article (c, i) in the run; the text the generative service
\* returns for it and the id the platform assigns to its media carry it.
Ordinal(c, i) == (c - 1) * (MaxArticles + 1) + i

VARIABLES
    env,               \* NEWS_API_KEY, OPENAI_API_KEY, WP_ACCESS_TOKEN
    pc,                \* position of the process
    raised,            \* where the exception that ended the process was raised
    fetched,           \* per bucket: what its headline request came to
    results,           \* per bucket: len(results[bucket])
    cpos,              \* position of `category` in the dict order
    idx,               \* `idx` of enumerate(articles, start=1)
    article,           \* the record the loop is at
    original_title,
    image_url,
    rewritten_content,
    local_filename,
    downloaded_ok,
    attachment_id,
    post_data,         \* payload of the last post-creation request
    fs,                \* temporary files on disk
    diskFaults,        \* file operations that have failed so far
    trace,             \* stage calls and removals made for the current article
    obs,               \* what the collaborators answered for the current article
    report,            \* the log line that ends the current article
    library            \* the site's media and posts, where they are recorded

vars == <<env, pc, raised, fetched, results, cpos, idx, article, original_title,
          image_url, rewritten_content, local_filename, downloaded_ok,
          attachment_id, post_data, fs, diskFaults, trace, obs,
          report, library>>

\* A status of 0 stands for "no response received".
NoObs == [rw |-> "none", dlStatus |-> 0, dlFile |-> "none", upFile |-> "none",
          upStatus |-> 0, upBody |-> "none", upId |-> NoId, postStatus |-> 0]

NoPost == [title |-> None, content |-> NoText, featured_image |-> NoId]

\* The WordPress site as the requests of lines 217-221 and 261-264 change
\* it: the ids of its media assets, the media ids its posts feature, and the
\* articles whose post was refused after their media was stored.  The site
\* is recorded only in the runs of PlatformSpec; elsewhere it is left out.
Unobserved == [observed |-> FALSE, media |-> {}, posts |-> {}, unposted |-> {}]

EmptyLibrary == [Unobserved EXCEPT !.observed = TRUE]

\* The site after a media upload that answered with the entry's id.
AfterUpload(lib, id) ==
    IF lib.observed /\ TruthyId(id)
    THEN [lib EXCEPT !.media = @ \cup {id.n}]
    ELSE lib

\* A site whose media is deleted again when the post is not created.
AfterPostWithRollback(lib, a, id, created) ==
    IF ~lib.observed THEN lib
    ELSE IF created THEN [lib EXCEPT !.posts = @ \cup {id.n}]
    ELSE [lib EXCEPT !.unposted = @ \cup {a}, !.media = @ \ {id.n}]

\* The site after the post request of article a with featured image id:
\* no request of the pipeline deletes or changes a media asset.
AfterPost(lib, a, id, created) ==
    IF ~lib.observed THEN lib
    ELSE IF created THEN [lib EXCEPT !.posts = @ \cup {id.n}]
    ELSE [lib EXCEPT !.unposted = @ \cup {a}]

Init ==
    /\ env \in [news : SecretInputs, openai : SecretInputs, wp : SecretInputs]
    /\ pc = "config"
    /\ raised = "none"
    /\ fetched = [b \in Buckets |-> "pending"]
    /\ results = [b \in Buckets |-> 0]
    /\ cpos = 1
    /\ idx = 0
    /\ article = NoArticle
    /\ original_title = None
    /\ image_url = None
    /\ rewritten_content = NoText
    /\ local_filename = NoFile
    /\ downloaded_ok = FALSE
    /\ attachment_id = NoId
    /\ post_data = NoPost
    /\ fs = {}
    /\ diskFaults = 0
    /\ trace = <<>>
    /\ obs = NoObs
    /\ report = "none"
    /\ library = Unobserved

disk == <<fs, diskFaults>>

locals == <<article, original_title, image_url, rewritten_content,
            local_filename, downloaded_ok, attachment_id, post_data>>

loopvars == <<cpos, idx, trace, obs, report>>

\* ------------------------------------------------------------------------
\* Module-level configuration check (lines 12-24)
\* ------------------------------------------------------------------------

SecretsPresent == Truthy(env.news) /\ Truthy(env.openai) /\ Truthy(env.wp)

ConfigCheck ==
    /\ pc = "config"
    /\ IF SecretsPresent
       THEN pc' = "fetch_finance" /\ raised' = raised
       ELSE pc' = "aborted" /\ raised' = "config"
    /\ UNCHANGED <<env, library, fetched, results, disk, locals, loopvars>>

\* ------------------------------------------------------------------------
\* fetch_top_headlines (lines 39-109)
\* ------------------------------------------------------------------------

HeadlineStatuses == {200, 500}

HeadlineBodies == {"articles", "unparseable", "badshape"}

\* A handler that names ConnectionError instead of RequestException.
IsConnectionError(e) == e = "ConnectionError"

\* except requests.exceptions.RequestException (lines 68, 84, 100)
IsRequestException(e) ==
    e \in {"ConnectionError", "Timeout", "HTTPError", "JSONDecodeError"}

\* What the try block of one bucket raises: requests.get raises
\* ConnectionError or Timeout, resp.raise_for_status() raises HTTPError for
\* a 4xx/5xx status, resp.json() raises JSONDecodeError (a RequestException)
\* or, in the versions of requests that have no such class, ValueError for
\* a body that is not JSON, and data.get / len raise AttributeError or
\* TypeError for a body that is not an object with a list under "articles".
RaisedByHeadlines(sent, status, body, oldRequests) ==
    IF ~sent THEN {"ConnectionError", "Timeout"}
    ELSE IF status >= 400 THEN {"HTTPError"}
    ELSE IF body = "unparseable"
         THEN {IF oldRequests THEN "ValueError" ELSE "JSONDecodeError"}
    ELSE IF body = "badshape" THEN {"AttributeError"}
    ELSE {"none"}

\* One try block of fetch_top_headlines: the request for bucket b, then the
\* position `next`.  fetched[b] records "failed" for a transport error or a
\* non-success status and "invalid" for a body that could not be read.
FetchBucket(b, next) ==
    /\ \E sent \in BOOLEAN, status \in HeadlineStatuses,
          body \in HeadlineBodies, oldRequests \in BOOLEAN :
       \E e \in RaisedByHeadlines(sent, status, body, oldRequests) :
          IF e = "none"
          THEN \E n \in 0..MaxArticles :
                  /\ fetched' = [fetched EXCEPT ![b] = "ok"]
                  /\ results' = [results EXCEPT ![b] = n]
                  /\ pc' = next
                  /\ UNCHANGED raised
          ELSE /\ fetched' = [fetched EXCEPT ![b] =
                                 IF e \in {"ConnectionError", "Timeout", "HTTPError"}
                                 THEN "failed" ELSE "invalid"]
               /\ UNCHANGED results
               /\ IF IsRequestException(e)
                  THEN pc' = next /\ UNCHANGED raised
                  ELSE pc' = "aborted" /\ raised' = "headlines"
    /\ UNCHANGED <<env, library, disk, locals, loopvars>>

FetchFinance == pc = "fetch_finance" /\ FetchBucket("finance", "fetch_business")

FetchBusiness == pc = "fetch_business" /\ FetchBucket("business", "fetch_tech")

FetchTech == pc = "fetch_tech" /\ FetchBucket("tech", "fetch_total")

TotalArticles == results["finance"] + results["business"] + results["tech"]

\* Argument of sys.exit at line 107.
SysExitArg == 0

\* fetch_top_headlines without lines 105-107.
FetchTotalNoExit ==
    /\ pc = "fetch_total"
    /\ pc' = "loop"
    /\ UNCHANGED <<env, library, raised, fetched, results, disk, locals,
                   loopvars>>

\* Lines 103-109: leave the process when no bucket has an article.
FetchTotal ==
    /\ pc = "fetch_total"
    /\ pc' = IF TotalArticles = 0 THEN "exited" ELSE "loop"
    /\ UNCHANGED <<env, library, raised, fetched, results, disk, locals,
                   loopvars>>

\* ------------------------------------------------------------------------
\* main (lines 278-331)
\* ------------------------------------------------------------------------

\* A loop that ends at the first bucket that has no article.
NextArticleStopsAtEmpty(c, i) ==
    IF i < results[Order[c]] THEN <<c, i + 1>>
    ELSE IF c < Len(Order) /\ results[Order[c + 1]] > 0 THEN <<c + 1, 1>>
    ELSE <<0, 0>>

RECURSIVE NextArticle(_, _)
\* The next (category, idx) of the double loop after (c, i), <<0, 0>> when
\* both loops are exhausted.
NextArticle(c, i) ==
    IF i < results[Order[c]] THEN <<c, i + 1>>
    ELSE IF c < Len(Order) THEN NextArticle(c + 1, 0)
    ELSE <<0, 0>>

\* The loop body without the check of lines 293-296.
LoopNextNoImageCheck ==
    /\ pc = "loop"
    /\ LET p == NextArticle(cpos, idx)
       IN  IF p = <<0, 0>>
           THEN /\ pc' = "done"
                /\ UNCHANGED <<locals, loopvars>>
           ELSE \E a \in ArticleInputs :
                  /\ cpos' = p[1]
                  /\ idx' = p[2]
                  /\ article' = a
                  /\ original_title' =
                        CleanTitle(IF Truthy(a.title) THEN a.title ELSE NoTitle)
                  /\ image_url' = a.urlToImage
                  /\ trace' = <<>>
                  /\ obs' = NoObs
                  /\ pc' = "rewrite"
                  /\ report' = "none"
                  /\ rewritten_content' = NoText
                  /\ local_filename' = NoFile
                  /\ downloaded_ok' = FALSE
                  /\ attachment_id' = NoId
                  /\ post_data' = NoPost
    /\ UNCHANGED <<env, library, raised, fetched, results, disk>>

\* Lines 283-296: the loop advances to the next article, reads its fields,
\* cleans its title and skips it when it has no image URL.  The locals that
\* later lines of the body assign (rewritten_content, local_filename,
\* downloaded_ok, attachment_id) are marked unset here: Python keeps the
\* value of the previous iteration until the assignment, and a stage that
\* read one before assigning it would be seen to read the unset value.
LoopNext ==
    /\ pc = "loop"
    /\ LET p == NextArticle(cpos, idx)
       IN  IF p = <<0, 0>>
           THEN /\ pc' = "done"
                /\ UNCHANGED <<locals, loopvars>>
           ELSE \E a \in ArticleInputs :
                  /\ cpos' = p[1]
                  /\ idx' = p[2]
                  /\ article' = a
                  /\ original_title' =
                        CleanTitle(IF Truthy(a.title) THEN a.title ELSE NoTitle)
                  /\ image_url' = a.urlToImage
                  /\ trace' = <<>>
                  /\ obs' = NoObs
                  /\ IF ~Truthy(a.urlToImage)
                     THEN pc' = "loop" /\ report' = "skipped"
                     ELSE pc' = "rewrite" /\ report' = "none"
                  /\ rewritten_content' = NoText
                  /\ local_filename' = NoFile
                  /\ downloaded_ok' = FALSE
                  /\ attachment_id' = NoId
                  /\ post_data' = NoPost
    /\ UNCHANGED <<env, library, raised, fetched, results, disk>>

\* rewrite_article (lines 116-145), called at line 299: every failure of the
\* OpenAI call or of reading its response is caught and gives the sentinel.
RewriteReplies == {"text", "error"}

\* A rewrite that gives an empty text when the call fails.
RewriteResultEmpty(reply, c, i) ==
    IF reply = "text" THEN [kind |-> "text", of |-> Ordinal(c, i)]
    ELSE [kind |-> "text", of |-> 0]

RewriteResult(reply, c, i) ==
    IF reply = "text" THEN [kind |-> "text", of |-> Ordinal(c, i)]
    ELSE FailureSentinel

\* A rewrite stage that hands every article of a bucket the text written
\* for the first one.
RewriteFirstOfBucket ==
    /\ pc = "rewrite"
    /\ \E reply \in RewriteReplies :
          /\ rewritten_content' = RewriteResult(reply, cpos, 1)
          /\ obs' = [obs EXCEPT !.rw = reply]
    /\ trace' = Append(trace, "rewrite")
    /\ pc' = "download"
    /\ UNCHANGED <<env, library, raised, fetched, results, disk, cpos, idx, report,
                   article, original_title, image_url, local_filename,
                   downloaded_ok, attachment_id, post_data>>

Rewrite ==
    /\ pc = "rewrite"
    /\ \E reply \in RewriteReplies :
          /\ rewritten_content' = RewriteResult(reply, cpos, idx)
          /\ obs' = [obs EXCEPT !.rw = reply]
    /\ trace' = Append(trace, "rewrite")
    /\ pc' = "download"
    /\ UNCHANGED <<env, library, raised, fetched, results, disk, cpos, idx, report,
                   article, original_title, image_url, local_filename,
                   downloaded_ok, attachment_id, post_data>>

\* download_image (lines 152-182), called at line 309 with the file name of
\* lines 303-308; lines 310-312 skip the article when it returns False.
\* open(..., "wb") creates the file, so a write that fails leaves it behind.
DownloadStatuses == {200, 404}

DownloadFileOutcomes == {"written", "open_fail", "write_fail"}

\* download_image and its call without the skip of lines 310-312.
DownloadNoSkip ==
    /\ pc = "download"
    /\ LET name == TempName(Order[cpos], idx, GuessExt(image_url))
       IN  /\ local_filename' = name
           /\ IF ~Truthy(image_url)
              THEN /\ downloaded_ok' = FALSE
                   /\ UNCHANGED <<disk, obs>>
              ELSE \/ /\ downloaded_ok' = FALSE
                      /\ UNCHANGED <<disk, obs>>
                   \/ \E status \in DownloadStatuses :
                         /\ status # 200
                         /\ downloaded_ok' = FALSE
                         /\ obs' = [obs EXCEPT !.dlStatus = status]
                         /\ UNCHANGED disk
                   \/ \E io \in DownloadFileOutcomes :
                         /\ io # "written" => diskFaults < MaxDiskFaults
                         /\ downloaded_ok' = (io = "written")
                         /\ fs' = IF io = "open_fail" THEN fs
                                  ELSE fs \cup {name}
                         /\ diskFaults' = IF io = "written" THEN diskFaults
                                          ELSE diskFaults + 1
                         /\ obs' = [obs EXCEPT !.dlStatus = 200,
                                               !.dlFile = io]
    /\ trace' = Append(trace, "download")
    /\ pc' = "upload"
    /\ report' = report
    /\ UNCHANGED <<env, library, raised, fetched, results, cpos, idx, article,
                   original_title, image_url, rewritten_content,
                   attachment_id, post_data>>

Download ==
    /\ pc = "download"
    /\ LET name == TempName(Order[cpos], idx, GuessExt(image_url))
       IN  /\ local_filename' = name
           /\ IF ~Truthy(image_url)
              THEN /\ downloaded_ok' = FALSE
                   /\ UNCHANGED <<disk, obs>>
              ELSE \/ /\ downloaded_ok' = FALSE
                      /\ UNCHANGED <<disk, obs>>
                   \/ \E status \in DownloadStatuses :
                         /\ status # 200
                         /\ downloaded_ok' = FALSE
                         /\ obs' = [obs EXCEPT !.dlStatus = status]
                         /\ UNCHANGED disk
                   \/ \E io \in DownloadFileOutcomes :
                         /\ io # "written" => diskFaults < MaxDiskFaults
                         /\ downloaded_ok' = (io = "written")
                         /\ fs' = IF io = "open_fail" THEN fs
                                  ELSE fs \cup {name}
                         /\ diskFaults' = IF io = "written" THEN diskFaults
                                          ELSE diskFaults + 1
                         /\ obs' = [obs EXCEPT !.dlStatus = 200,
                                               !.dlFile = io]
    /\ trace' = Append(trace, "download")
    /\ IF downloaded_ok'
       THEN pc' = "upload" /\ report' = report
       ELSE pc' = "loop" /\ report' = "skipped"
    /\ UNCHANGED <<env, library, raised, fetched, results, cpos, idx, article,
                   original_title, image_url, rewritten_content,
                   attachment_id, post_data>>

\* upload_local_image (lines 189-238), called at line 315.  open() at line
\* 212 and resp.json() and the reads of its result at lines 227-235 are
\* outside the try block: what they raise leaves the function and main.
UploadStatuses == {200, 201, 500}

UploadBodies == {"unparseable", "badshape", "no_media", "entry"}

UploadAccepted(status) == status \in {200, 201}

\* media[0].get("id"): absent or null, zero, or the id the platform assigned.
EntryIds(c, i) == {NoId, IntId(0), IntId(Ordinal(c, i))}

Upload ==
    /\ pc = "upload"
    /\ trace' = Append(trace, "upload")
    /\ IF local_filename \notin fs
       THEN /\ attachment_id' = NoId
            /\ obs' = [obs EXCEPT !.upFile = "missing"]
            /\ pc' = "remove"
            /\ UNCHANGED <<raised, diskFaults>>
       ELSE \/ /\ diskFaults < MaxDiskFaults
               /\ diskFaults' = diskFaults + 1
               /\ obs' = [obs EXCEPT !.upFile = "read_fail"]
               /\ pc' = "aborted"
               /\ raised' = "upload"
               /\ UNCHANGED attachment_id
            \/ /\ UNCHANGED diskFaults
               /\ \/ /\ obs' = [obs EXCEPT !.upFile = "read"]
                     /\ attachment_id' = NoId
                     /\ pc' = "remove"
                     /\ UNCHANGED raised
                  \/ \E status \in UploadStatuses, body \in UploadBodies,
                        id \in EntryIds(cpos, idx) :
                        /\ obs' = [obs EXCEPT
                                     !.upFile = "read",
                                     !.upStatus = status,
                                     !.upBody = IF UploadAccepted(status)
                                                THEN body ELSE "unread",
                                     !.upId = IF UploadAccepted(status)
                                                 /\ body = "entry"
                                              THEN id ELSE NoId]
                        /\ IF ~UploadAccepted(status)
                           THEN /\ attachment_id' = NoId
                                /\ pc' = "remove"
                                /\ UNCHANGED raised
                           ELSE IF body \in {"unparseable", "badshape"}
                           THEN /\ pc' = "aborted"
                                /\ raised' = "upload"
                                /\ UNCHANGED attachment_id
                           ELSE /\ attachment_id' = IF body = "entry" THEN id
                                                    ELSE NoId
                                /\ pc' = "remove"
                                /\ UNCHANGED raised
    /\ library' = IF pc' = "remove" THEN AfterUpload(library, attachment_id')
                  ELSE library
    /\ UNCHANGED <<env, fetched, results, fs, cpos, idx, report, article,
                   original_title, image_url, rewritten_content,
                   local_filename, downloaded_ok, post_data>>

\* The removal without the check of lines 322-324.
RemoveTempNoIdCheck ==
    /\ pc = "remove"
    /\ IF local_filename \in fs
       THEN \/ /\ fs' = fs \ {local_filename}
               /\ trace' = Append(trace, "remove")
               /\ UNCHANGED diskFaults
            \/ /\ diskFaults < MaxDiskFaults
               /\ diskFaults' = diskFaults + 1
               /\ UNCHANGED <<fs, trace>>
       ELSE UNCHANGED <<fs, diskFaults, trace>>
    /\ pc' = "post"
    /\ report' = report
    /\ UNCHANGED <<env, library, raised, fetched, results, cpos, idx, obs,
                   locals>>

\* Lines 316-324: os.remove, whose OSError is swallowed, then the article is
\* skipped when upload_local_image returned no id.
RemoveTemp ==
    /\ pc = "remove"
    /\ IF local_filename \in fs
       THEN \/ /\ fs' = fs \ {local_filename}
               /\ trace' = Append(trace, "remove")
               /\ UNCHANGED diskFaults
            \/ /\ diskFaults < MaxDiskFaults
               /\ diskFaults' = diskFaults + 1
               /\ UNCHANGED <<fs, trace>>
       ELSE UNCHANGED <<fs, diskFaults, trace>>
    /\ IF ~TruthyId(attachment_id)
       THEN pc' = "loop" /\ report' = "skipped"
       ELSE pc' = "post" /\ report' = report
    /\ UNCHANGED <<env, library, raised, fetched, results, cpos, idx, obs,
                   locals>>

\* create_wordpress_post (lines 245-271), called at line 327; lines 328-331
\* log the outcome.
PostStatuses == {200, 201, 500}

\* A check that takes 200 alone for success.
PostAcceptedOnly200(status) == status = 200

PostAccepted(status) == status \in {200, 201}

PostData(title, content, id) ==
    [title |-> title, content |-> content,
     featured_image |-> IF TruthyId(id) THEN id ELSE NoId]

Post ==
    /\ pc = "post"
    /\ post_data' = PostData(original_title, rewritten_content, attachment_id)
    /\ trace' = Append(trace, "post")
    /\ \/ /\ report' = "failed"
          /\ obs' = obs
       \/ \E status \in PostStatuses :
             /\ obs' = [obs EXCEPT !.postStatus = status]
             /\ report' = IF PostAccepted(status) THEN "published" ELSE "failed"
    /\ library' = AfterPost(library, Ordinal(cpos, idx), attachment_id,
                             report' = "published")
    /\ pc' = "loop"
    /\ UNCHANGED <<env, raised, fetched, results, disk, cpos, idx, article,
                   original_title, image_url, rewritten_content,
                   local_filename, downloaded_ok, attachment_id>>

Next ==
    \/ ConfigCheck
    \/ FetchFinance
    \/ FetchBusiness
    \/ FetchTech
    \/ FetchTotal
    \/ LoopNext
    \/ Rewrite
    \/ Download
    \/ Upload
    \/ RemoveTemp
    \/ Post

Spec == Init /\ [][Next]_vars

\* Exit status of the process once it has ended.
Terminal == {"done", "exited", "aborted"}

ExitCode == IF pc = "aborted" THEN 1 ELSE IF pc = "exited" THEN SysExitArg ELSE 0

TypeOK ==
    /\ pc \in {"config", "fetch_finance", "fetch_business", "fetch_tech",
               "fetch_total", "loop", "rewrite", "download", "upload",
               "remove", "post"} \cup Terminal
    /\ results \in [Buckets -> 0..MaxArticles]
    /\ cpos \in 1..Len(Order)
    /\ idx \in 0..MaxArticles
    /\ report \in {"none", "skipped", "published", "failed"}
    /\ library \in [observed : BOOLEAN, media : SUBSET Nat, posts : SUBSET Nat,
                    unposted : SUBSET Nat]

\* ------------------------------------------------------------------------
\* Title cleaning on its own (line 287): a title is drawn, cleaned, and the
\* result is cleaned again.
\* ------------------------------------------------------------------------

TitleChars == {"a", " ", "\n", "-", "endash", "emdash"}

Titles == UNION {[1..n -> TitleChars] : n \in 0..MaxTitleLen}

TitleInit ==
    /\ env = [news |-> Key, openai |-> Key, wp |-> Key]
    /\ pc = "title"
    /\ raised = "none"
    /\ fetched = [b \in Buckets |-> "pending"]
    /\ results = [b \in Buckets |-> 0]
    /\ cpos = 1
    /\ idx = 0
    /\ \E t \in Titles : article = [title |-> t, urlToImage |-> None]
    /\ original_title = None
    /\ image_url = None
    /\ rewritten_content = NoText
    /\ local_filename = NoFile
    /\ downloaded_ok = FALSE
    /\ attachment_id = NoId
    /\ post_data = NoPost
    /\ fs = {}
    /\ diskFaults = 0
    /\ trace = <<>>
    /\ obs = NoObs
    /\ report = "none"
    /\ library = Unobserved

titleframe == <<env, library, raised, fetched, results, disk, loopvars, article,
                image_url, rewritten_content, local_filename, downloaded_ok,
                attachment_id, post_data>>

CleanOnce ==
    /\ pc = "title"
    /\ original_title' = CleanTitle(article.title)
    /\ pc' = "cleaned"
    /\ UNCHANGED titleframe

CleanAgain ==
    /\ pc = "cleaned"
    /\ original_title' = CleanTitle(original_title)
    /\ pc' = "recleaned"
    /\ UNCHANGED titleframe

TitleNext == CleanOnce \/ CleanAgain

TitleSpec == TitleInit /\ [][TitleNext]_vars

\* The title with each of its dashes replaced by a hyphen.
Hyphenate(t) == [k \in 1..Len(t) |-> IF t[k] \in Dashes THEN "-" ELSE t[k]]

\* No whitespace, dash, whitespace occurs in the title.
HasNoSeparator(t) ==
    \A i \in 1..Len(t) :
       ~(i + 2 <= Len(t) /\ t[i] \in Whitespace /\ t[i + 1] \in Dashes
           /\ t[i + 2] \in Whitespace)

\* ------------------------------------------------------------------------
\* Properties
\* ------------------------------------------------------------------------

\* The processing of the current article has ended.
ArticleEnded == idx > 0 /\ pc \in {"loop", "done", "aborted"}

InArticle == pc \in {"rewrite", "download", "upload", "remove", "post"}

FetchPhase == {"config", "fetch_finance", "fetch_business", "fetch_tech"}

\* C1: when the processing of an article for which download_image was
\* called ends, its temporary file is not on disk, and a file that was
\* created was deleted exactly once.
C1_TempFileRemoved ==
    (ArticleEnded /\ Contains(trace, "download")) =>
        /\ local_filename \notin fs
        /\ obs.dlFile \in {"written", "write_fail"} => Count(trace, "remove") = 1

\* C2: create_wordpress_post is invoked for an article only if the article
\* has a non-empty image URL, download_image returned success and
\* upload_local_image returned a media identifier; after a failed upload it
\* is never invoked.
C2_PostNeedsImageAndMedia ==
    (pc = "post" \/ Contains(trace, "post")) =>
        /\ Truthy(article.urlToImage)
        /\ Contains(trace, "download")
        /\ obs.dlStatus = 200 /\ obs.dlFile = "written" /\ downloaded_ok
        /\ Contains(trace, "upload")
        /\ UploadAccepted(obs.upStatus) /\ obs.upBody = "entry"
        /\ TruthyId(attachment_id) /\ attachment_id = obs.upId

C2_Witness ==
    /\ Contains(trace, "post")
    /\ report = "published"
    /\ obs.upStatus = 201

\* C3 as stated: an article with an image URL whose download returns 200,
\* whose upload returns 200/201 with a media entry, whatever the entry's id,
\* has its post created, and is reported published when that returns
\* 200/201.
C3_PublishedWhateverId ==
    ( /\ ArticleEnded
      /\ Truthy(article.urlToImage)
      /\ obs.dlStatus = 200
      /\ UploadAccepted(obs.upStatus)
      /\ obs.upBody = "entry" ) =>
        /\ Contains(trace, "post")
        /\ obs.postStatus \in {200, 201} => report = "published"

\* C3 as amended: the same for a media entry whose id is neither null nor
\* zero.
C3_PublishedWithId ==
    ( /\ ArticleEnded
      /\ Truthy(article.urlToImage)
      /\ obs.dlStatus = 200
      /\ UploadAccepted(obs.upStatus)
      /\ obs.upBody = "entry"
      /\ TruthyId(obs.upId) ) =>
        /\ Contains(trace, "post")
        /\ obs.postStatus \in {200, 201} => report = "published"

C3_Witness ==
    /\ ArticleEnded
    /\ obs.dlStatus = 200
    /\ obs.upStatus = 200
    /\ TruthyId(obs.upId)
    /\ obs.postStatus = 201
    /\ report = "published"

\* C4: no stage is called for an article whose image URL is empty or null.
C4_NoImageNoCalls ==
    (idx > 0 /\ ~Truthy(article.urlToImage)) =>
        /\ trace = <<>>
        /\ ~InArticle
        /\ post_data = NoPost

C4_Witness ==
    /\ idx > 0
    /\ article.urlToImage = None
    /\ report = "skipped"
    /\ pc = "loop"
    /\ post_data = NoPost

\* C5: a failure of a stage of one article is absorbed at that article: no
\* exception leaves the loop, which goes on to the next article.
C5_FailureAbsorbed ==
    (idx > 0 /\ trace # <<>> /\ obs.upFile # "read_fail") => pc # "aborted"

\* C6: a bucket whose headline request fails by a transport error, a
\* timeout or a non-success status has an empty article list; the failure
\* raises nothing, leaves the results of the other buckets alone and is
\* followed by the request for the next bucket, so that every bucket has
\* been requested when the requests are over.
C6_FailedBucketEmpty ==
    /\ [](\A b \in Buckets : fetched[b] = "failed" => results[b] = 0)
    /\ [][\A b \in Buckets :
            (fetched[b] = "pending" /\ fetched'[b] = "failed") =>
                /\ raised' = "none"
                /\ pc' = IF b = "finance" THEN "fetch_business"
                         ELSE IF b = "business" THEN "fetch_tech"
                         ELSE "fetch_total"
                /\ \A o \in Buckets \ {b} :
                      results'[o] = results[o] /\ fetched'[o] = fetched[o]]_vars
    /\ [][\A b \in Buckets :
            fetched[b] # "pending" =>
                results'[b] = results[b] /\ fetched'[b] = fetched[b]]_vars
    /\ []((pc \notin FetchPhase /\ raised \notin {"config", "headlines"}) =>
             \A b \in Buckets : fetched[b] # "pending")

C6_Witness ==
    /\ fetched["finance"] = "failed"
    /\ fetched["business"] = "ok" /\ results["business"] = 2
    /\ fetched["tech"] = "failed"
    /\ pc = "rewrite"
    /\ cpos = 2

\* C7: when every bucket has been requested and none has an article, the
\* process leaves through sys.exit(0) without any stage call.
C7_NothingToDo ==
    ( /\ \A b \in Buckets : fetched[b] # "pending" /\ results[b] = 0
      /\ pc \notin {"fetch_total", "aborted"} ) =>
        /\ pc = "exited"
        /\ ExitCode = 0
        /\ trace = <<>>
        /\ idx = 0
        /\ post_data = NoPost

C7_Witness ==
    /\ pc = "exited"
    /\ fetched["finance"] = "failed"
    /\ fetched["business"] = "ok"
    /\ fetched["tech"] = "failed"

\* C8: with the configuration present, a run whose headline requests are
\* over ends with exit code 0, whatever the collaborators answered at the
\* stages of its articles.
C8_AlwaysExitZero ==
    ( /\ SecretsPresent
      /\ pc \in Terminal
      /\ \A b \in Buckets : fetched[b] # "pending"
      /\ raised # "headlines"
      /\ obs.upFile # "read_fail" ) =>
        ExitCode = 0

\* C9: a failed rewrite gives the sentinel and raises nothing; the article
\* goes on to the download, and when download and upload succeed the post
\* is created with the sentinel as its content.
C9_SentinelPublished ==
    obs.rw = "error" =>
        /\ rewritten_content = FailureSentinel
        /\ raised = "none" => (pc = "download" \/ Contains(trace, "download"))
        /\ (downloaded_ok /\ TruthyId(attachment_id) /\ pc # "remove") =>
              (pc = "post" \/ Contains(trace, "post"))
        /\ Contains(trace, "post") => post_data.content = FailureSentinel

C9_Witness ==
    /\ obs.rw = "error"
    /\ Contains(trace, "post")
    /\ post_data.content = FailureSentinel
    /\ report = "published"

\* C10: a missing or empty secret aborts the process before any network
\* call, and nothing else aborts it.
C10_OnlyConfigAborts ==
    /\ (~SecretsPresent /\ pc # "config") => ( /\ pc = "aborted"
                                         /\ \A b \in Buckets : fetched[b] = "pending"
                                         /\ idx = 0 /\ trace = <<>> )
    /\ pc = "aborted" => ~SecretsPresent

\* C11: cleaning a cleaned title changes nothing; a title without a
\* separator is returned as it is; and the result does not depend on which
\* of the three dashes the title uses.
C11_CleanIdempotent ==
    /\ pc = "recleaned" => original_title = CleanTitle(article.title)
    /\ (pc = "cleaned" /\ HasNoSeparator(article.title)) =>
          original_title = article.title
    /\ pc = "cleaned" =>
          Hyphenate(original_title) = CleanTitle(Hyphenate(article.title))

StageOrder == <<"rewrite", "download", "upload", "post">>

\* The stage calls made so far for the current article.
StageCalls == SelectSeq(trace, LAMBDA x : x # "remove")

\* C12: the stage calls of an article are a prefix of rewrite, download,
\* upload, post, so each happens at most once and in that order; a stage
\* starts only when all the stages before it have returned; and after a
\* missing image URL, a download that returned False or an upload that
\* returned no id, no later stage is called.
C12_StrictStageOrder ==
    /\ \E n \in 0..Len(StageOrder) : StageCalls = SubSeq(StageOrder, 1, n)
    /\ pc = "rewrite" => StageCalls = <<>>
    /\ pc = "download" => StageCalls = SubSeq(StageOrder, 1, 1)
    /\ pc = "upload" => StageCalls = SubSeq(StageOrder, 1, 2)
    /\ pc \in {"remove", "post"} => StageCalls = SubSeq(StageOrder, 1, 3)
    /\ (idx > 0 /\ ~Truthy(article.urlToImage)) => StageCalls = <<>> /\ ~InArticle
    /\ (Contains(trace, "download") /\ ~downloaded_ok) =>
          /\ StageCalls = SubSeq(StageOrder, 1, 2)
          /\ ~InArticle
    /\ (Contains(trace, "upload") /\ ~TruthyId(attachment_id)) =>
          /\ StageCalls = SubSeq(StageOrder, 1, 3)
          /\ pc # "post"

C12_Witness ==
    /\ trace = <<"rewrite", "download", "upload", "remove", "post">>
    /\ pc = "loop"
    /\ report = "failed"

\* The article that follows (c, i) in the order finance, business, tech
\* and, within a bucket, in fetch order: <<0, 0>> when there is none.
Successor(c, i) ==
    IF i < results[Order[c]] THEN <<c, i + 1>>
    ELSE LET later == {d \in (c + 1)..Len(Order) : results[Order[d]] > 0}
         IN  IF later = {} THEN <<0, 0>>
             ELSE <<CHOOSE d \in later : \A e \in later : d <= e, 1>>

\* C13: the loop moves to another article only when no stage of the
\* current one is pending, and then to the article that follows it in the
\* order; every stage call is a call for the article the loop is at; and
\* the loop ends only when no article follows.
C13_OneArticleAtATime ==
    /\ [][<<cpos, idx>>' # <<cpos, idx>> =>
            /\ pc = "loop"
            /\ <<cpos, idx>>' = Successor(cpos, idx)
            /\ trace' = <<>>]_vars
    /\ [][trace' # trace =>
            \/ trace' = <<>> /\ pc = "loop"
            \/ /\ <<cpos, idx>>' = <<cpos, idx>>
               /\ InArticle
               /\ Len(trace') = Len(trace) + 1
               /\ SubSeq(trace', 1, Len(trace)) = trace]_vars
    /\ [](pc = "done" => Successor(cpos, idx) = <<0, 0>>)

C13_Witness ==
    /\ results = [finance |-> 2, business |-> 0, tech |-> 2]
    /\ cpos = 3
    /\ idx = 2
    /\ pc = "post"

\* ------------------------------------------------------------------------
\* The temporary names of two articles of one run (main, lines 283-308)
\* ------------------------------------------------------------------------

NameUrls == {PngUrl, QueryUrl, DigitUrl, BareUrl}

NameInit ==
    /\ env = [news |-> Key, openai |-> Key, wp |-> Key]
    /\ pc = "unnamed"
    /\ raised = "none"
    /\ fetched = [b \in Buckets |-> "ok"]
    /\ results = [b \in Buckets |-> MaxIndex]
    /\ cpos \in 1..Len(Order)
    /\ idx \in 1..MaxIndex
    /\ \E u \in NameUrls :
          /\ article = [title |-> PlainTitle, urlToImage |-> u]
          /\ image_url = u
    /\ original_title = PlainTitle
    /\ rewritten_content = NoText
    /\ local_filename = NoFile
    /\ downloaded_ok = FALSE
    /\ attachment_id = NoId
    /\ post_data = NoPost
    /\ fs = {}
    /\ diskFaults = 0
    /\ trace = <<>>
    /\ obs = NoObs
    /\ report = "none"
    /\ library = Unobserved

nameframe == <<env, library, raised, fetched, results, disk, trace, obs, report,
               original_title, rewritten_content, downloaded_ok,
               attachment_id, post_data>>

\* Lines 303-308 for one article.
NameFirst ==
    /\ pc = "unnamed"
    /\ local_filename' = TempName(Order[cpos], idx, GuessExt(image_url))
    /\ pc' = "named"
    /\ UNCHANGED <<nameframe, cpos, idx, article, image_url>>

\* Lines 303-308 for any article that comes later in the same run.
NameLater ==
    /\ pc \in {"named", "named_later"}
    /\ \E c \in 1..Len(Order), i \in 1..MaxIndex, u \in NameUrls :
          /\ c > cpos \/ (c = cpos /\ i > idx)
          /\ cpos' = c
          /\ idx' = i
          /\ article' = [title |-> PlainTitle, urlToImage |-> u]
          /\ image_url' = u
          /\ local_filename' = TempName(Order[c], i, GuessExt(u))
    /\ pc' = "named_later"
    /\ UNCHANGED nameframe

NameNext == NameFirst \/ NameLater

NameSpec == NameInit /\ [][NameNext]_vars

\* C15: the temporary name of an article differs, as a string, from the
\* name of every article processed before it in the same run, whatever the
\* two image URLs are.
C15_DistinctTempNames ==
    [][pc' = "named_later" =>
         FileNameText(local_filename') # FileNameText(local_filename)]_vars

C15_Witness ==
    /\ pc = "named_later"
    /\ cpos = 1
    /\ idx = 11
    /\ local_filename.ext = DefaultExt

\* C16: the data of a post-creation call are those of the article being
\* processed: the title is that article's cleaned title, the content is what
\* that article's rewrite call returned, and the featured image is the id
\* that article's upload returned.
C16_PostOfOneArticle ==
    post_data # NoPost =>
        /\ idx > 0
        /\ post_data.title =
              CleanTitle(IF Truthy(article.title) THEN article.title ELSE NoTitle)
        /\ obs.rw \in RewriteReplies
        /\ post_data.content = RewriteResult(obs.rw, cpos, idx)
        /\ obs.upId \in EntryIds(cpos, idx)
        /\ post_data.featured_image = obs.upId

C16_Witness ==
    /\ post_data # NoPost
    /\ idx = 2
    /\ post_data.content.kind = "text"
    /\ post_data.featured_image = IntId(Ordinal(cpos, idx))
    /\ report = "published"

\* C17: at most one temporary file exists at any time; none exists while
\* create_wordpress_post is being called or once the run has ended; and
\* none exists when the download of an article starts.
C17_AtMostOneTempFile ==
    /\ Cardinality(fs) <= 1
    /\ pc = "post" => fs = {}
    /\ pc \in Terminal => fs = {}
    /\ pc = "download" => fs = {}

\* ------------------------------------------------------------------------
\* The loop of main together with the WordPress site (lines 283-331): every
\* bucket is full, the disk does not fail, and the site starts empty.
\* ------------------------------------------------------------------------

PlatformInit ==
    /\ env = [news |-> Key, openai |-> Key, wp |-> Key]
    /\ pc = "loop"
    /\ raised = "none"
    /\ fetched = [b \in Buckets |-> "ok"]
    /\ results = [b \in Buckets |-> MaxArticles]
    /\ cpos = 1
    /\ idx = 0
    /\ article = NoArticle
    /\ original_title = None
    /\ image_url = None
    /\ rewritten_content = NoText
    /\ local_filename = NoFile
    /\ downloaded_ok = FALSE
    /\ attachment_id = NoId
    /\ post_data = NoPost
    /\ fs = {}
    /\ diskFaults = MaxDiskFaults
    /\ trace = <<>>
    /\ obs = NoObs
    /\ report = "none"
    /\ library = EmptyLibrary

PlatformNext ==
    \/ LoopNext
    \/ Rewrite
    \/ Download
    \/ Upload
    \/ RemoveTemp
    \/ Post

PlatformSpec == PlatformInit /\ [][PlatformNext]_vars

\* The media assets of the site that no post features.
Orphans == library.media \ library.posts

\* C14: no step of the pipeline takes a media asset away from the site; a
\* post-creation call that fails leaves the site's media as they are; and
\* every article whose upload returned an id and whose post creation failed
\* has its asset on the site, featured by no post, from then on and at the
\* end of the run.
C14_OrphanedMediaStay ==
    /\ [][library.media \subseteq library'.media]_vars
    /\ [][(pc = "post" /\ report' = "failed") =>
            /\ library'.media = library.media
            /\ Ordinal(cpos, idx) \in library'.unposted
            /\ attachment_id.n \in library'.media]_vars
    /\ [](\A a \in library.unposted : a \in Orphans)
    /\ [](pc = "done" => Cardinality(Orphans) >= Cardinality(library.unposted))

C14_Witness ==
    /\ pc = "done"
    /\ Cardinality(library.unposted) = 2
    /\ library.posts # {}

====
